---- MODULE Spec2Model ----
(***************************************************************************)
(* The session codec of src/internal/session/binary.rs: enc_session writes *)
(* a Session to a byte stream, dec_session reads one back under a caller's *)
(* identity keypair.  The byte stream travels through untrusted storage,   *)
(* which may cut it short or change a byte of it.  dec_session and         *)
(* dec_session_state are modelled one read at a time, so that the read     *)
(* position and the capacity reserved are visible between reads.           *)
(***************************************************************************)
EXTENDS Integers, Sequences, FiniteSets, TLC

VARIABLES
  src,       \* the byte stream: what enc_session wrote, as the storage hands it back
  origin,    \* "none", "encoded", "truncated" or "tampered": what happened to src
  orig,      \* Some(the Session src was encoded from) while src is exactly its encoding
  encKey,    \* the local identity public key src was encoded under
  ident,     \* the IdentityKeyPair the caller passes to dec_session
  pos,       \* bytes the DecoderReader has consumed
  pc,        \* the position of dec_session / dec_session_state
  frame,     \* dec_session's locals: vs, tg, li, ri, pp, ls, rb, counter, and iter,
             \* the iterations of "for _ in 0 .. ls" completed
  sframe,    \* dec_session_state's locals: tg, lr, rr, sc, rk, ct, lv, vm and capacities
  seen,      \* the tags of the states read so far, in stream order
  result,    \* the outcome of dec_session
  round,     \* 1: decoding the stored stream; 2: decoding the re-encoded first result
  first,     \* Some(the Session of the first decode) in round 2
  firstSeen  \* seen at the end of the first decode, in round 2

vars == <<src, origin, orig, encKey, ident, pos, pc, frame, sframe, seen, result,
          round, first, firstSeen>>

\* ------------------------------------------------------------------ bounds

\* Number of distinct session tags a constructed Session draws its states from.
MaxTags == 2
\* Length of the non-empty RecvChain sequence of a constructed SessionState.
MaxChains == 2
\* Length of the non-empty skipped MessageKeys sequence of a constructed SessionState.
MaxSkipped == 1
\* How far Session.counter of a constructed Session may exceed its number of states
\* (states inserted earlier and pruned since).
MaxSlack == 1
\* Largest element count VecDeque::with_capacity can reserve (isize::MAX / element
\* size in the build, scaled down); a larger request panics with "capacity overflow".
AllocLimit == 65535

\* ------------------------------------------------------- primitive layouts

\* Length in bytes of every opaque key and of a SessionTag (scaled down).
KeyLen == 2
\* bincode writes a u32 as 4 bytes, a u16 as 2 bytes and a usize as 8 bytes, big-endian.
U32Len == 4
U16Len == 2
UsizeLen == 8
ByteBase == 256

Take(s, p, n) == SubSeq(s, p + 1, p + n)

RECURSIVE enc_be(_, _)
enc_be(v, n) == IF n = 0 THEN <<>> ELSE Append(enc_be(v \div ByteBase, n - 1), v % ByteBase)

RECURSIVE dec_be(_)
dec_be(bs) ==
  IF bs = <<>> THEN 0
  ELSE dec_be(SubSeq(bs, 1, Len(bs) - 1)) * ByteBase + bs[Len(bs)]

\* A usize above AllocLimit is represented by AllocLimit + 1: every such count fails
\* to reserve alike, and as a loop bound it exceeds the length of any stream here.
RECURSIVE dec_be_usize(_)
dec_be_usize(bs) ==
  IF bs = <<>> THEN 0
  ELSE LET v == dec_be_usize(SubSeq(bs, 1, Len(bs) - 1)) * ByteBase + bs[Len(bs)]
       IN  IF v > AllocLimit THEN AllocLimit + 1 ELSE v

\* DecodingError values (bincode's IoError on a short read, d.error(..) otherwise).
EndOfStream == [text |-> "unexpected end of stream", vers |-> <<>>]
UnknownVersion(v) == [text |-> "Unknown session version", vers |-> <<v>>]
InvalidPrekeys == [text |-> "Invalid pending prekeys", vers |-> <<>>]

\* Result<T, DecodingError> of one read at position p: the value (or the error) and
\* the position of the reader afterwards.  A short read consumes what is left.
RdOk(v, p) == [ok |-> TRUE, val |-> v, pos |-> p]
RdErr(e, p) == [ok |-> FALSE, val |-> e, pos |-> p]

read_bytes(s, p, n) ==
  IF p + n <= Len(s) THEN RdOk(Take(s, p, n), p + n) ELSE RdErr(EndOfStream, Len(s))

enc_u32(v) == enc_be(v, U32Len)
dec_u32(s, p) ==
  LET r == read_bytes(s, p, U32Len) IN IF r.ok THEN RdOk(dec_be(r.val), r.pos) ELSE r

enc_usize(v) == enc_be(v, UsizeLen)
dec_usize(s, p) ==
  LET r == read_bytes(s, p, UsizeLen) IN IF r.ok THEN RdOk(dec_be_usize(r.val), r.pos) ELSE r

\* Key-material codec (internal::keys::binary, internal::derived::binary,
\* internal::message::binary): fixed-length, order-preserving, failing on a short read.
enc_session_tag(t) == t
dec_session_tag(s, p) == read_bytes(s, p, KeyLen)
enc_identity_key(k) == k
dec_identity_key(s, p) == read_bytes(s, p, KeyLen)
enc_public_key(k) == k
dec_public_key(s, p) == read_bytes(s, p, KeyLen)
enc_cipher_key(k) == k
dec_cipher_key(s, p) == read_bytes(s, p, KeyLen)
enc_mac_key(k) == k
dec_mac_key(s, p) == read_bytes(s, p, KeyLen)
enc_counter(c) == enc_u32(c)
dec_counter(s, p) == dec_u32(s, p)
enc_prekey_id(i) == enc_be(i, U16Len)
dec_prekey_id(s, p) ==
  LET r == read_bytes(s, p, U16Len) IN IF r.ok THEN RdOk(dec_be(r.val), r.pos) ELSE r
enc_keypair(k) == k.secret_key \o k.public_key
dec_keypair(s, p) ==
  LET a == read_bytes(s, p, KeyLen) IN
  IF ~a.ok THEN a
  ELSE LET b == read_bytes(s, a.pos, KeyLen) IN
       IF ~b.ok THEN b ELSE RdOk([secret_key |-> a.val, public_key |-> b.val], b.pos)

\* ----------------------------------------------- root key, chains, message keys

enc_root_key(k) == enc_cipher_key(k.key)
dec_root_key(s, p) ==
  LET k == dec_cipher_key(s, p) IN IF k.ok THEN RdOk([key |-> k.val], k.pos) ELSE k

enc_chain_key(k) == enc_mac_key(k.key) \o enc_counter(k.idx)
dec_chain_key(s, p) ==
  LET k == dec_mac_key(s, p) IN
  IF ~k.ok THEN k
  ELSE LET c == dec_counter(s, k.pos) IN
       IF ~c.ok THEN c ELSE RdOk([key |-> k.val, idx |-> c.val], c.pos)

enc_send_chain(c) == enc_chain_key(c.chain_key) \o enc_keypair(c.ratchet_key)
dec_send_chain(s, p) ==
  LET k == dec_chain_key(s, p) IN
  IF ~k.ok THEN k
  ELSE LET c == dec_keypair(s, k.pos) IN
       IF ~c.ok THEN c ELSE RdOk([chain_key |-> k.val, ratchet_key |-> c.val], c.pos)

enc_recv_chain(r) == enc_chain_key(r.chain_key) \o enc_public_key(r.ratchet_key)
dec_recv_chain(s, p) ==
  LET k == dec_chain_key(s, p) IN
  IF ~k.ok THEN k
  ELSE LET c == dec_public_key(s, k.pos) IN
       IF ~c.ok THEN c ELSE RdOk([chain_key |-> k.val, ratchet_key |-> c.val], c.pos)

enc_msg_keys(k) == enc_cipher_key(k.cipher_key) \o enc_mac_key(k.mac_key) \o enc_counter(k.counter)
dec_msg_keys(s, p) ==
  LET k == dec_cipher_key(s, p) IN
  IF ~k.ok THEN k
  ELSE LET m == dec_mac_key(s, k.pos) IN
       IF ~m.ok THEN m
       ELSE LET c == dec_counter(s, m.pos) IN
            IF ~c.ok THEN c
            ELSE RdOk([cipher_key |-> k.val, mac_key |-> m.val, counter |-> c.val], c.pos)

\* ------------------------------------------------------------------ version

enc_session_version == enc_u32(1)

\* As dec_session_version, but every version from 1 upwards is taken for V1.
dec_session_version_lenient(s, p) ==
  LET r == dec_u32(s, p) IN
  IF ~r.ok THEN r
  ELSE IF r.val >= 1 THEN RdOk("V1", r.pos)
  ELSE RdErr(UnknownVersion(r.val), r.pos)

dec_session_version(s, p) ==
  LET r == dec_u32(s, p) IN
  IF ~r.ok THEN r
  ELSE IF r.val = 1 THEN RdOk("V1", r.pos)
  ELSE RdErr(UnknownVersion(r.val), r.pos)

\* ------------------------------------------------------------ encode: session

RECURSIVE Concat(_)
Concat(ss) == IF ss = <<>> THEN <<>> ELSE Head(ss) \o Concat(Tail(ss))

\* As enc_session_state, but the receiving chains are written newest first.
enc_session_state_reversed(s) ==
     enc_session_tag(s.session_tag)
  \o enc_usize(Len(s.recv_chains))
  \o Concat([i \in 1..Len(s.recv_chains) |->
               enc_recv_chain(s.recv_chains[Len(s.recv_chains) + 1 - i])])
  \o enc_send_chain(s.send_chain)
  \o enc_root_key(s.root_key)
  \o enc_counter(s.prev_counter)
  \o enc_usize(Len(s.skipped_msgkeys))
  \o Concat([i \in 1..Len(s.skipped_msgkeys) |-> enc_msg_keys(s.skipped_msgkeys[i])])

enc_session_state(s) ==
     enc_session_tag(s.session_tag)
  \o enc_usize(Len(s.recv_chains))
  \o Concat([i \in 1..Len(s.recv_chains) |-> enc_recv_chain(s.recv_chains[i])])
  \o enc_send_chain(s.send_chain)
  \o enc_root_key(s.root_key)
  \o enc_counter(s.prev_counter)
  \o enc_usize(Len(s.skipped_msgkeys))
  \o Concat([i \in 1..Len(s.skipped_msgkeys) |-> enc_msg_keys(s.skipped_msgkeys[i])])

\* Ord of SessionTag: the byte arrays compared lexicographically.
TagLess(a, b) ==
  \E i \in 1..Len(a) : a[i] < b[i] /\ \A j \in 1..(i - 1) : a[j] = b[j]

\* BTreeMap iteration: the keys in ascending order.
RECURSIVE SortTags(_)
SortTags(S) ==
  IF S = {} THEN <<>>
  ELSE LET m == CHOOSE x \in S : \A y \in S \ {x} : TagLess(x, y)
       IN  <<m>> \o SortTags(S \ {m})

\* As Values, but the entries come in descending key order.
ValuesDescending(m) ==
  LET ks == SortTags(DOMAIN m) IN [i \in 1..Len(ks) |-> m[ks[Len(ks) + 1 - i]]]

\* BTreeMap::values(): the entries in ascending key order.
Values(m) == LET ks == SortTags(DOMAIN m) IN [i \in 1..Len(ks) |-> m[ks[i]]]

\* BTreeMap::insert: the entry under an existing key is replaced.
Insert(m, k, v) == [t \in (DOMAIN m) \cup {k} |-> IF t = k THEN v ELSE m[t]]

\* Option<T>: None is <<>>, Some(x) is <<x>>.
None == <<>>
Some(x) == <<x>>

enc_session(s) ==
     enc_session_version
  \o enc_session_tag(s.session_tag)
  \o enc_identity_key(s.local_identity.public_key)
  \o enc_identity_key(s.remote_identity)
  \o (IF s.pending_prekey = None
        THEN enc_u32(1)
        ELSE enc_u32(2) \o enc_prekey_id(s.pending_prekey[1].id)
                        \o enc_public_key(s.pending_prekey[1].pk))
  \o enc_usize(Cardinality(DOMAIN s.session_states))
  \o LET vs == Values(s.session_states)
     IN  Concat([i \in 1..Len(vs) |-> enc_session_state(vs[i].val)])

\* ------------------------------------------------- sessions a caller constructs

\* Distinct recognisable bytes for every key, so that fields read in the wrong order
\* or from the wrong place differ.
KeyOf(n) == [j \in 1..KeyLen |-> 10 * n + j]
TagOf(i) == [j \in 1..KeyLen |-> IF j = KeyLen THEN i ELSE 0]
Tags == {TagOf(i) : i \in 1..MaxTags}

IdentityA == KeyOf(1)
IdentityB == KeyOf(2)
IdentityKeyPair(k) == [public_key |-> k, secret_key |-> KeyOf(9)]

MkRecvChain(i) == [chain_key |-> [key |-> KeyOf(3), idx |-> i], ratchet_key |-> KeyOf(4)]
MkMessageKeys(i) == [cipher_key |-> KeyOf(10), mac_key |-> KeyOf(11), counter |-> 20 + i]

\* A SessionState with empty sequences (full = FALSE) or with MaxChains receiving
\* chains and MaxSkipped retained message keys (full = TRUE).
MkSessionState(t, full) ==
  [session_tag     |-> t,
   recv_chains     |-> IF full THEN [i \in 1..MaxChains |-> MkRecvChain(i)] ELSE <<>>,
   send_chain      |-> [chain_key   |-> [key |-> KeyOf(5), idx |-> 6],
                        ratchet_key |-> [secret_key |-> KeyOf(6), public_key |-> KeyOf(7)]],
   root_key        |-> [key |-> KeyOf(8)],
   prev_counter    |-> 40 + t[KeyLen],
   skipped_msgkeys |-> IF full THEN [i \in 1..MaxSkipped |-> MkMessageKeys(i)] ELSE <<>>]

\* Indexed::new
Indexed(i, v) == [idx |-> i, val |-> v]

ValidSession(s) ==
  /\ s.counter <= Cardinality(DOMAIN s.session_states) + MaxSlack
  /\ \A t \in DOMAIN s.session_states :
       /\ s.session_states[t].idx < s.counter
       /\ s.session_states[t].val.session_tag = t
  /\ \A t, u \in DOMAIN s.session_states :
       t # u => s.session_states[t].idx # s.session_states[u].idx

\* Every Session the model constructs: states under distinct tags (the map's keys),
\* each with an insertion index below Session.counter, no two alike; a pending prekey
\* or none; a counter that may exceed the number of states.
Sessions ==
  { s \in
      { [version         |-> "V1",
         session_tag     |-> TagOf(1),
         counter         |-> c,
         local_identity  |-> IdentityKeyPair(IdentityA),
         remote_identity |-> KeyOf(2),
         pending_prekey  |-> pp,
         session_states  |-> [t \in DOMAIN ix |-> Indexed(ix[t], MkSessionState(t, full))]]
        : pp \in {None, Some([id |-> 7, pk |-> KeyOf(12)])},
          c \in 0..(MaxTags + MaxSlack),
          ix \in UNION {[T -> 0..(MaxTags + MaxSlack - 1)] : T \in SUBSET Tags},
          full \in BOOLEAN }
    : ValidSession(s) }

\* Bytes the storage may put in place of a byte of the stream.
TamperBytes == {1, 3}

\* ------------------------------------------------------------------- state

EmptyFrame ==
  [vs |-> "", tg |-> <<>>, li |-> <<>>, ri |-> <<>>, pp |-> None, ls |-> 0,
   iter |-> 0, rb |-> <<>>, counter |-> 0]

EmptySFrame ==
  [tg |-> <<>>, lr |-> 0, rr |-> <<>>, rr_cap |-> 0, sc |-> <<>>, rk |-> <<>>,
   ct |-> 0, lv |-> 0, vm |-> <<>>, vm_cap |-> 0]

\* The outcomes: Ok(Session), Err(DecodeSessionError::Other(e)),
\* Err(DecodeSessionError::LocalIdentityChanged(k)), or a panic that unwinds the call.
NoResult == [kind |-> "None", err |-> None, key |-> None, session |-> None]
Ok(s) == [kind |-> "Ok", err |-> None, key |-> None, session |-> Some(s)]
Other(e) == [kind |-> "Other", err |-> Some(e), key |-> None, session |-> None]
LocalIdentityChanged(k) ==
  [kind |-> "LocalIdentityChanged", err |-> None, key |-> Some(k), session |-> None]
Panic == [kind |-> "Panic", err |-> None, key |-> None, session |-> None]

Init ==
  /\ src = <<>>
  /\ origin = "none"
  /\ orig = None
  /\ encKey = <<>>
  /\ ident = IdentityKeyPair(IdentityA)
  /\ pos = 0
  /\ pc = "idle"
  /\ frame = EmptyFrame
  /\ sframe = EmptySFrame
  /\ seen = <<>>
  /\ result = NoResult
  /\ round = 1
  /\ first = None
  /\ firstSeen = <<>>

\* --------------------------------------------------- encode and the storage

\* The caller encodes a Session it constructed and stores the bytes.
EncSession ==
  /\ pc = "idle"
  /\ \E s \in Sessions :
       /\ src' = enc_session(s)
       /\ orig' = Some(s)
       /\ encKey' = s.local_identity.public_key
  /\ origin' = "encoded"
  /\ pc' = "stored"
  /\ UNCHANGED <<ident, pos, frame, sframe, seen, result, round, first, firstSeen>>

\* The storage loses the end of the stream.
Truncate ==
  /\ pc = "stored"
  /\ origin = "encoded"
  /\ \E n \in 0..(Len(src) - 1) : src' = SubSeq(src, 1, n)
  /\ origin' = "truncated"
  /\ orig' = None
  /\ UNCHANGED <<encKey, ident, pos, pc, frame, sframe, seen, result, round, first, firstSeen>>

\* The storage (or whoever can write to it) changes one byte of the stream.
Tamper ==
  /\ pc = "stored"
  /\ origin = "encoded"
  /\ \E i \in 1..Len(src), b \in TamperBytes :
       /\ b # src[i]
       /\ src' = [src EXCEPT ![i] = b]
  /\ origin' = "tampered"
  /\ orig' = None
  /\ UNCHANGED <<encKey, ident, pos, pc, frame, sframe, seen, result, round, first, firstSeen>>

\* --------------------------------------------------------- decode: dec_session

\* try!: the first failure ends the call; a DecodingError becomes
\* DecodeSessionError::Other (From<DecodingError>).
Fail(r, p) ==
  /\ result' = r
  /\ pos' = p
  /\ pc' = "done"

\* The caller passes the stored stream and its identity keypair to dec_session.
DecSessionBegin ==
  /\ pc = "stored"
  /\ \E k \in {IdentityA, IdentityB} : ident' = IdentityKeyPair(k)
  /\ pos' = 0
  /\ pc' = "version"
  /\ UNCHANGED <<src, origin, orig, encKey, frame, sframe, seen, result, round, first,
                 firstSeen>>

\* let vs = try!(dec_session_version(d));
DecVersion ==
  /\ pc = "version"
  /\ LET r == dec_session_version(src, pos) IN
       IF r.ok
         THEN /\ frame' = [frame EXCEPT !.vs = r.val]
              /\ pos' = r.pos
              /\ pc' = "session_tag"
              /\ UNCHANGED result
         ELSE /\ Fail(Other(r.val), r.pos)
              /\ UNCHANGED frame
  /\ UNCHANGED <<src, origin, orig, encKey, ident, sframe, seen, round, first, firstSeen>>

\* let tg = try!(dec_session_tag(d));
DecSessionTag ==
  /\ pc = "session_tag"
  /\ LET r == dec_session_tag(src, pos) IN
       IF r.ok
         THEN /\ frame' = [frame EXCEPT !.tg = r.val]
              /\ pos' = r.pos
              /\ pc' = "local_identity"
              /\ UNCHANGED result
         ELSE /\ Fail(Other(r.val), r.pos)
              /\ UNCHANGED frame
  /\ UNCHANGED <<src, origin, orig, encKey, ident, sframe, seen, round, first, firstSeen>>

\* As DecLocalIdentity, but the failure carries the caller's key, not the embedded one.
DecLocalIdentityCarriesExpected ==
  /\ pc = "local_identity"
  /\ LET r == dec_identity_key(src, pos) IN
       IF ~r.ok
         THEN /\ Fail(Other(r.val), r.pos)
              /\ UNCHANGED frame
         ELSE IF r.val # ident.public_key
           THEN /\ Fail(LocalIdentityChanged(ident.public_key), r.pos)
                /\ frame' = [frame EXCEPT !.li = r.val]
           ELSE /\ frame' = [frame EXCEPT !.li = r.val]
                /\ pos' = r.pos
                /\ pc' = "remote_identity"
                /\ UNCHANGED result
  /\ UNCHANGED <<src, origin, orig, encKey, ident, sframe, seen, round, first, firstSeen>>

\* let li = try!(dec_identity_key(d));
\* if li != ident.public_key { return Err(LocalIdentityChanged(li)) }
DecLocalIdentity ==
  /\ pc = "local_identity"
  /\ LET r == dec_identity_key(src, pos) IN
       IF ~r.ok
         THEN /\ Fail(Other(r.val), r.pos)
              /\ UNCHANGED frame
         ELSE IF r.val # ident.public_key
           THEN /\ Fail(LocalIdentityChanged(r.val), r.pos)
                /\ frame' = [frame EXCEPT !.li = r.val]
           ELSE /\ frame' = [frame EXCEPT !.li = r.val]
                /\ pos' = r.pos
                /\ pc' = "remote_identity"
                /\ UNCHANGED result
  /\ UNCHANGED <<src, origin, orig, encKey, ident, sframe, seen, round, first, firstSeen>>

\* let ri = try!(dec_identity_key(d));
DecRemoteIdentity ==
  /\ pc = "remote_identity"
  /\ LET r == dec_identity_key(src, pos) IN
       IF r.ok
         THEN /\ frame' = [frame EXCEPT !.ri = r.val]
              /\ pos' = r.pos
              /\ pc' = "pending_prekey"
              /\ UNCHANGED result
         ELSE /\ Fail(Other(r.val), r.pos)
              /\ UNCHANGED frame
  /\ UNCHANGED <<src, origin, orig, encKey, ident, sframe, seen, round, first, firstSeen>>

\* As dec_pending_prekey, but an unknown discriminant is taken for "absent".
dec_pending_prekey_default(s, p) ==
  LET d == dec_u32(s, p) IN
  IF ~d.ok THEN d
  ELSE IF d.val = 2
    THEN LET id == dec_prekey_id(s, d.pos) IN
         IF ~id.ok THEN id
         ELSE LET pk == dec_public_key(s, id.pos) IN
              IF ~pk.ok THEN pk
              ELSE RdOk(Some([id |-> id.val, pk |-> pk.val]), pk.pos)
  ELSE RdOk(None, d.pos)

\* The match on the pending-prekey discriminant, as a Result<Option<(id, pk)>, _>.
dec_pending_prekey(s, p) ==
  LET d == dec_u32(s, p) IN
  IF ~d.ok THEN d
  ELSE IF d.val = 1 THEN RdOk(None, d.pos)
  ELSE IF d.val = 2
    THEN LET id == dec_prekey_id(s, d.pos) IN
         IF ~id.ok THEN id
         ELSE LET pk == dec_public_key(s, id.pos) IN
              IF ~pk.ok THEN pk
              ELSE RdOk(Some([id |-> id.val, pk |-> pk.val]), pk.pos)
  ELSE RdErr(InvalidPrekeys, d.pos)

\* let pp = match try!(Decodable::decode(d)) { 1u32 => .., 2u32 => .., _ => return Err(..) };
DecPendingPrekey ==
  /\ pc = "pending_prekey"
  /\ LET r == dec_pending_prekey(src, pos) IN
       IF r.ok
         THEN /\ frame' = [frame EXCEPT !.pp = r.val]
              /\ pos' = r.pos
              /\ pc' = "state_count"
              /\ UNCHANGED result
         ELSE /\ Fail(Other(r.val), r.pos)
              /\ UNCHANGED frame
  /\ UNCHANGED <<src, origin, orig, encKey, ident, sframe, seen, round, first, firstSeen>>

\* Ok(Session { version: vs, session_tag: tg, counter: counter, local_identity: ident, .. })
BuildSession(f, id) ==
  [version         |-> f.vs,
   session_tag     |-> f.tg,
   counter         |-> f.counter,
   local_identity  |-> id,
   remote_identity |-> f.ri,
   pending_prekey  |-> f.pp,
   session_states  |-> f.rb]

\* for _ in 0 .. ls: another state to read, or the loop is over and the Session is built.
LoopOrReturn(f) ==
  IF f.iter < f.ls
    THEN /\ pc' = "st_tag"
         /\ UNCHANGED result
    ELSE /\ pc' = "done"
         /\ result' = Ok(BuildSession(f, ident))

\* As DecStateCount, but a count that cannot be read is taken for zero.
DecStateCountDefaulted ==
  /\ pc = "state_count"
  /\ LET r == dec_usize(src, pos)
         f == [frame EXCEPT !.ls = IF r.ok THEN r.val ELSE 0, !.iter = 0, !.rb = <<>>,
                            !.counter = 0]
     IN  /\ frame' = f
         /\ pos' = r.pos
         /\ LoopOrReturn(f)
  /\ UNCHANGED <<src, origin, orig, encKey, ident, sframe, seen, round, first, firstSeen>>

\* let ls: usize = try!(Decodable::decode(d)); let mut rb = BTreeMap::new(); let mut counter = 0;
DecStateCount ==
  /\ pc = "state_count"
  /\ LET r == dec_usize(src, pos) IN
       IF r.ok
         THEN LET f == [frame EXCEPT !.ls = r.val, !.iter = 0, !.rb = <<>>, !.counter = 0] IN
              /\ frame' = f
              /\ pos' = r.pos
              /\ LoopOrReturn(f)
         ELSE /\ Fail(Other(r.val), r.pos)
              /\ UNCHANGED frame
  /\ UNCHANGED <<src, origin, orig, encKey, ident, sframe, seen, round, first, firstSeen>>

\* --------------------------------------------------- decode: dec_session_state

\* VecDeque::with_capacity(n): room for n elements is reserved at once, before any
\* element is read; a request the allocator cannot serve panics.
with_capacity(n) == [ok |-> n <= AllocLimit, cap |-> n]

\* let tg = try!(dec_session_tag(d));
DecStateTag ==
  /\ pc = "st_tag"
  /\ LET r == dec_session_tag(src, pos) IN
       IF r.ok
         THEN /\ sframe' = [EmptySFrame EXCEPT !.tg = r.val]
              /\ pos' = r.pos
              /\ pc' = "st_recv_count"
              /\ UNCHANGED result
         ELSE /\ Fail(Other(r.val), r.pos)
              /\ UNCHANGED sframe
  /\ UNCHANGED <<src, origin, orig, encKey, ident, frame, seen, round, first, firstSeen>>

\* let lr: usize = try!(Decodable::decode(d)); let mut rr = VecDeque::with_capacity(lr);
DecRecvCount ==
  /\ pc = "st_recv_count"
  /\ LET r == dec_usize(src, pos) IN
       IF ~r.ok
         THEN /\ Fail(Other(r.val), r.pos)
              /\ UNCHANGED sframe
         ELSE IF ~with_capacity(r.val).ok
           THEN /\ Fail(Panic, r.pos)
                /\ sframe' = [sframe EXCEPT !.lr = r.val]
           ELSE /\ sframe' = [sframe EXCEPT !.lr = r.val, !.rr = <<>>,
                                            !.rr_cap = with_capacity(r.val).cap]
                /\ pos' = r.pos
                /\ pc' = IF r.val = 0 THEN "st_send_chain" ELSE "st_recv_chain"
                /\ UNCHANGED result
  /\ UNCHANGED <<src, origin, orig, encKey, ident, frame, seen, round, first, firstSeen>>

\* for _ in 0 .. lr { rr.push_back(try!(dec_recv_chain(d))) }
DecRecvChain ==
  /\ pc = "st_recv_chain"
  /\ LET r == dec_recv_chain(src, pos) IN
       IF r.ok
         THEN /\ sframe' = [sframe EXCEPT !.rr = Append(@, r.val)]
              /\ pos' = r.pos
              /\ pc' = IF Len(sframe.rr) + 1 < sframe.lr THEN "st_recv_chain"
                       ELSE "st_send_chain"
              /\ UNCHANGED result
         ELSE /\ Fail(Other(r.val), r.pos)
              /\ UNCHANGED sframe
  /\ UNCHANGED <<src, origin, orig, encKey, ident, frame, seen, round, first, firstSeen>>

\* let sc = try!(dec_send_chain(d));
DecSendChain ==
  /\ pc = "st_send_chain"
  /\ LET r == dec_send_chain(src, pos) IN
       IF r.ok
         THEN /\ sframe' = [sframe EXCEPT !.sc = r.val]
              /\ pos' = r.pos
              /\ pc' = "st_root_key"
              /\ UNCHANGED result
         ELSE /\ Fail(Other(r.val), r.pos)
              /\ UNCHANGED sframe
  /\ UNCHANGED <<src, origin, orig, encKey, ident, frame, seen, round, first, firstSeen>>

\* let rk = try!(dec_root_key(d));
DecRootKey ==
  /\ pc = "st_root_key"
  /\ LET r == dec_root_key(src, pos) IN
       IF r.ok
         THEN /\ sframe' = [sframe EXCEPT !.rk = r.val]
              /\ pos' = r.pos
              /\ pc' = "st_prev_counter"
              /\ UNCHANGED result
         ELSE /\ Fail(Other(r.val), r.pos)
              /\ UNCHANGED sframe
  /\ UNCHANGED <<src, origin, orig, encKey, ident, frame, seen, round, first, firstSeen>>

\* let ct = try!(dec_counter(d));
DecPrevCounter ==
  /\ pc = "st_prev_counter"
  /\ LET r == dec_counter(src, pos) IN
       IF r.ok
         THEN /\ sframe' = [sframe EXCEPT !.ct = r.val]
              /\ pos' = r.pos
              /\ pc' = "st_skipped_count"
              /\ UNCHANGED result
         ELSE /\ Fail(Other(r.val), r.pos)
              /\ UNCHANGED sframe
  /\ UNCHANGED <<src, origin, orig, encKey, ident, frame, seen, round, first, firstSeen>>

\* let lv: usize = try!(Decodable::decode(d)); let mut vm = VecDeque::with_capacity(lv);
DecSkippedCount ==
  /\ pc = "st_skipped_count"
  /\ LET r == dec_usize(src, pos) IN
       IF ~r.ok
         THEN /\ Fail(Other(r.val), r.pos)
              /\ UNCHANGED sframe
         ELSE IF ~with_capacity(r.val).ok
           THEN /\ Fail(Panic, r.pos)
                /\ sframe' = [sframe EXCEPT !.lv = r.val]
           ELSE /\ sframe' = [sframe EXCEPT !.lv = r.val, !.vm = <<>>,
                                            !.vm_cap = with_capacity(r.val).cap]
                /\ pos' = r.pos
                /\ pc' = IF r.val = 0 THEN "insert" ELSE "st_msg_keys"
                /\ UNCHANGED result
  /\ UNCHANGED <<src, origin, orig, encKey, ident, frame, seen, round, first, firstSeen>>

\* for _ in 0 .. lv { vm.push_back(try!(dec_msg_keys(d))) }
DecMsgKeys ==
  /\ pc = "st_msg_keys"
  /\ LET r == dec_msg_keys(src, pos) IN
       IF r.ok
         THEN /\ sframe' = [sframe EXCEPT !.vm = Append(@, r.val)]
              /\ pos' = r.pos
              /\ pc' = IF Len(sframe.vm) + 1 < sframe.lv THEN "st_msg_keys" ELSE "insert"
              /\ UNCHANGED result
         ELSE /\ Fail(Other(r.val), r.pos)
              /\ UNCHANGED sframe
  /\ UNCHANGED <<src, origin, orig, encKey, ident, frame, seen, round, first, firstSeen>>

\* Ok(SessionState { session_tag: tg, recv_chains: rr, send_chain: sc, .. })
BuildSessionState(f) ==
  [session_tag     |-> f.tg,
   recv_chains     |-> f.rr,
   send_chain      |-> f.sc,
   root_key        |-> f.rk,
   prev_counter    |-> f.ct,
   skipped_msgkeys |-> f.vm]

\* As InsertState, but counter is taken from the size of the map after the insert.
InsertStateCountsMap ==
  /\ pc = "insert"
  /\ LET s == BuildSessionState(sframe)
         m == Insert(frame.rb, s.session_tag, Indexed(frame.counter, s))
         f == [frame EXCEPT !.rb = m,
                            !.counter = Cardinality(DOMAIN m),
                            !.iter = @ + 1]
     IN  /\ frame' = f
         /\ seen' = Append(seen, s.session_tag)
         /\ LoopOrReturn(f)
  /\ sframe' = EmptySFrame
  /\ UNCHANGED <<src, origin, orig, encKey, ident, pos, round, first, firstSeen>>

\* rb.insert(s.session_tag.clone(), Indexed::new(counter, s)); counter = counter + 1
InsertState ==
  /\ pc = "insert"
  /\ LET s == BuildSessionState(sframe)
         f == [frame EXCEPT !.rb = Insert(@, s.session_tag, Indexed(frame.counter, s)),
                            !.counter = @ + 1,
                            !.iter = @ + 1]
     IN  /\ frame' = f
         /\ seen' = Append(seen, s.session_tag)
         /\ LoopOrReturn(f)
  /\ sframe' = EmptySFrame
  /\ UNCHANGED <<src, origin, orig, encKey, ident, pos, round, first, firstSeen>>

\* ------------------------------------------------------------------ re-encode

\* The caller encodes the Session it just decoded and decodes the new stream under
\* the same identity.
ReEncode ==
  /\ pc = "done"
  /\ round = 1
  /\ result.kind = "Ok"
  /\ src' = enc_session(result.session[1])
  /\ first' = result.session
  /\ firstSeen' = seen
  /\ round' = 2
  /\ pos' = 0
  /\ pc' = "version"
  /\ frame' = EmptyFrame
  /\ sframe' = EmptySFrame
  /\ seen' = <<>>
  /\ result' = NoResult
  /\ UNCHANGED <<origin, orig, encKey, ident>>

Next ==
  \/ EncSession
  \/ Truncate
  \/ Tamper
  \/ DecSessionBegin
  \/ DecVersion
  \/ DecSessionTag
  \/ DecLocalIdentity
  \/ DecRemoteIdentity
  \/ DecPendingPrekey
  \/ DecStateCount
  \/ DecStateTag
  \/ DecRecvCount
  \/ DecRecvChain
  \/ DecSendChain
  \/ DecRootKey
  \/ DecPrevCounter
  \/ DecSkippedCount
  \/ DecMsgKeys
  \/ InsertState
  \/ ReEncode

Spec == Init /\ [][Next]_vars

\* ====================================================================== claims

\* Offsets of the fixed-length head of the stream.
OffTag == U32Len
OffLocal == OffTag + KeyLen
OffRemote == OffLocal + KeyLen
OffPrekey == OffRemote + KeyLen

Done == pc = "done"
StreamVersion == dec_be(Take(src, 0, U32Len))
EmbeddedLocal == Take(src, OffLocal, KeyLen)
StreamPrekeyTag == dec_be(Take(src, OffPrekey, U32Len))

\* The position of a tag among the tags of a collection, in ascending order: the
\* place of its state in the stream enc_session writes.
Rank(t, S) == Cardinality({u \in S : TagLess(u, t)})

\* A Session with its insertion indices reassigned 0..n in tag order.
Reindexed(s) ==
  [s EXCEPT !.session_states =
     [t \in DOMAIN @ |-> Indexed(Rank(t, DOMAIN @), @[t].val)]]

StrictlyIncreasing(ts) == \A i \in 1..(Len(ts) - 1) : TagLess(ts[i], ts[i + 1])

\* The first decode of an untouched encoding, under the identity it was encoded under.
DecodedOwnEncoding ==
  /\ Done
  /\ round = 1
  /\ origin = "encoded"
  /\ ident.public_key = encKey

\* C1 (as stated): decoding the encoding of a valid Session under its identity succeeds
\* and yields a Session equal to it in every field, Session.counter included, except
\* that the insertion indices are reassigned 0..n in stream order.
C1_RoundTripEveryField ==
  DecodedOwnEncoding => result = Ok(Reindexed(orig[1]))

\* C1 (amended): decoding the encoding of a valid Session under its identity succeeds
\* and yields a Session equal to it in every field, except that the insertion indices
\* are reassigned 0..n in stream order and Session.counter is the number of states.
C1_RoundTrip ==
  DecodedOwnEncoding =>
    result = Ok([Reindexed(orig[1]) EXCEPT
                   !.counter = Cardinality(DOMAIN orig[1].session_states)])

\* A Session with a pending prekey, MaxTags non-empty states whose indices are not in
\* tag order, and a counter above its number of states has been encoded and decoded.
C1_Witness ==
  /\ DecodedOwnEncoding
  /\ result.kind = "Ok"
  /\ orig[1].pending_prekey # None
  /\ Cardinality(DOMAIN orig[1].session_states) = MaxTags
  /\ orig[1].counter > MaxTags
  /\ \E t \in DOMAIN orig[1].session_states :
       /\ orig[1].session_states[t].idx # Rank(t, DOMAIN orig[1].session_states)
       /\ Len(orig[1].session_states[t].val.recv_chains) = MaxChains

\* C2: whenever the stream's version is 1 and its session tag and embedded local
\* identity key are present, and the embedded key differs from the caller's public
\* key, dec_session returns LocalIdentityChanged carrying the embedded key, having
\* read nothing after it, whatever follows in the stream.
C2_IdentityContinuity ==
  (/\ Done
   /\ Len(src) >= OffRemote
   /\ StreamVersion = 1
   /\ EmbeddedLocal # ident.public_key)
  => /\ result = LocalIdentityChanged(EmbeddedLocal)
     /\ pos = OffRemote

\* A stream encoded under identity A, changed somewhere after the embedded key, has
\* been decoded under identity B.
C2_Witness ==
  /\ Done
  /\ origin = "tampered"
  /\ result.kind = "LocalIdentityChanged"
  /\ result.key = Some(encKey)
  /\ ident.public_key = IdentityB
  /\ Len(src) > OffRemote

\* C3: whenever the stream's version field holds a value v other than 1, dec_session
\* fails with Other naming v, having read the version field alone, whether or not the
\* embedded identity matches the caller's.
C3_VersionRejection ==
  (/\ pc \notin {"idle", "stored", "version"}
   /\ Len(src) >= U32Len
   /\ StreamVersion # 1)
  => /\ Done
     /\ result = Other(UnknownVersion(StreamVersion))
     /\ pos = U32Len

\* A stream with another version, whose embedded identity is not the caller's either,
\* has been rejected.
C3_Witness ==
  /\ Done
  /\ Len(src) >= OffRemote
  /\ StreamVersion \notin {0, 1}
  /\ EmbeddedLocal # ident.public_key
  /\ result.kind = "Other"

\* C4: dec_session on a proper prefix of a valid Session's encoding, under the identity
\* it was encoded under, ends in a malformed-data failure: no Session, no
\* identity-changed failure.
C4_TruncationSafety ==
  (Done /\ origin = "truncated" /\ ident.public_key = encKey)
  => /\ result.kind = "Other"
     /\ result.session = None

\* A stream cut inside its second session state, after a receiving chain of that
\* state was read, has been decoded.
C4_Witness ==
  /\ Done
  /\ origin = "truncated"
  /\ ident.public_key = encKey
  /\ Len(seen) = 1
  /\ Len(sframe.rr) >= 1
  /\ result.kind = "Other"

\* The Session whose encoding src is, if any.
EncodedFrom == IF round = 2 THEN first ELSE IF origin = "encoded" THEN orig ELSE None

\* dec_session has gone past the pending-prekey field (or failed on it).
PastPrekey == frame.ri # <<>> /\ pc # "pending_prekey"

\* C5: enc_session writes discriminant 1 exactly for an absent pending prekey and 2,
\* then the id, then the public key, exactly for a present one; dec_session maps 1 to
\* absent and 2 to present with the id and key that follow, so both cases round-trip,
\* and fails with Other on every other discriminant.
C5_PendingPrekeyTag ==
  /\ (pc # "idle" /\ EncodedFrom # None) =>
       LET pp == EncodedFrom[1].pending_prekey IN
       /\ StreamPrekeyTag \in {1, 2}
       /\ pp = None <=> StreamPrekeyTag = 1
       /\ pp # None =>
            Take(src, OffPrekey + U32Len, U16Len + KeyLen)
              = enc_prekey_id(pp[1].id) \o enc_public_key(pp[1].pk)
       /\ PastPrekey => frame.pp = pp
  /\ (PastPrekey /\ Len(src) >= OffPrekey + U32Len) =>
       /\ StreamPrekeyTag = 1 =>
            /\ frame.pp = None
            /\ pos >= OffPrekey + U32Len
            /\ result # Other(InvalidPrekeys)
       /\ (StreamPrekeyTag = 2 /\ Len(src) >= OffPrekey + U32Len + U16Len + KeyLen) =>
            frame.pp = Some([id |-> dec_be(Take(src, OffPrekey + U32Len, U16Len)),
                             pk |-> Take(src, OffPrekey + U32Len + U16Len, KeyLen)])
       /\ StreamPrekeyTag \notin {1, 2} =>
            /\ Done
            /\ result = Other(InvalidPrekeys)

\* A stream whose pending-prekey discriminant is 3 has been rejected.
C5_Witness ==
  /\ Done
  /\ PastPrekey
  /\ Len(src) >= OffPrekey + U32Len
  /\ StreamPrekeyTag = 3
  /\ result = Other(InvalidPrekeys)

\* The insertion indices of a decoded Session's collection.
Indices(s) == {s.session_states[t].idx : t \in DOMAIN s.session_states}

\* C6: after every successful decode, also of a stream in which two states carry the
\* same tag, a collection of k states carries exactly the indices 0..k-1.
C6_DenseIndices ==
  (Done /\ result.kind = "Ok") =>
    Indices(result.session[1]) = 0..(Cardinality(DOMAIN result.session[1].session_states) - 1)

\* C7 (as stated): the Session decoded from the re-encoding of a decoded Session is
\* equal to it in every field, insertion indices and counter included.
C7_IdempotentReencode ==
  (Done /\ round = 2) => result = Ok(first[1])

\* C7 (amended): the same, for a first stream whose session states appear in strictly
\* increasing tag order (as in every stream enc_session writes).
C7_IdempotentReencodeSorted ==
  (Done /\ round = 2 /\ StrictlyIncreasing(firstSeen)) => result = Ok(first[1])

\* A tampered stream with MaxTags states in increasing tag order was decoded,
\* re-encoded and decoded again.
C7_Witness ==
  /\ Done
  /\ round = 2
  /\ origin = "tampered"
  /\ Len(firstSeen) = MaxTags
  /\ StrictlyIncreasing(firstSeen)
  /\ result.kind = "Ok"

\* The outcome part of C8: one of the three outcomes, set only when the call has
\* returned, and no Session beside a failure.
C8_Outcomes ==
  /\ Done => result.kind \in {"Ok", "Other", "LocalIdentityChanged"}
  /\ result # NoResult => Done
  /\ result.kind # "Ok" => result.session = None

\* C8: dec_session ends in a complete Session, a malformed-data failure or an
\* identity-changed failure and in nothing else; once a read or check has failed the
\* call has returned that failure, nothing more is read from the source (until
\* another call starts), and no Session is returned with it.
C8_AtomicFailFast ==
  /\ []C8_Outcomes
  /\ [][result # NoResult => (pos' = pos \/ result' = NoResult)]_vars

\* C9: at every point of dec_session_state, the capacity reserved for the RecvChain
\* sequence and for the skipped MessageKeys sequence is at most the number of
\* elements already read plus the number of bytes left in the stream.
C9_BoundedReservation ==
  /\ sframe.rr_cap <= Len(sframe.rr) + (Len(src) - pos)
  /\ sframe.vm_cap <= Len(sframe.vm) + (Len(src) - pos)

\* C10: after every successful decode, Session.counter is the number of session
\* states read from the stream and exceeds every insertion index in the collection.
C10_CounterAboveIndices ==
  (Done /\ result.kind = "Ok") =>
    LET s == result.session[1] IN
    /\ s.counter = Len(seen)
    /\ s.counter = frame.ls
    /\ \A i \in Indices(s) : i < s.counter

\* A stream in which two states carry the same tag has been decoded: the collection
\* is smaller than the count.
C10_Witness ==
  /\ Done
  /\ round = 1
  /\ result.kind = "Ok"
  /\ Cardinality(DOMAIN result.session[1].session_states) < result.session[1].counter

====
